---- MODULE Spec2Model ----
(***************************************************************************)
(* A model of wtvr3d's renderer core: Material / MaterialInstance          *)
(* (src/src/renderer/material.rs) and Renderer (src/src/renderer/mod.rs).  *)
(*                                                                         *)
(* A WebGlProgram handle is a positive integer handed out by the device;   *)
(* Option::None is NoProgram.  A uniform location is modelled by the       *)
(* program it was queried from: a location obtained from an older program  *)
(* is a different value from one obtained from the current program.        *)
(***************************************************************************)
EXTENDS Integers, Sequences, FiniteSets, TLC

VARIABLES
    materials,        \* material id -> Material
    instances,        \* instance id -> MaterialInstance
    gl_programs,      \* number of programs the device has created so far
    ret,              \* what the last compile call returned (observation)
    backend,          \* the device's answers during that compile (observation)
    calls,            \* location lookups issued by the last call (observation)
    compiled_with,    \* material id -> configuration of its last successful compile (history)
    ever_compiled,    \* material id -> a compile has succeeded on it (history)
    renderer,         \* the Renderer: mesh_repository and next_material_id
    material_key,     \* material id -> the numeric id the Material holds, or NoKey
    frame,            \* device calls of the last render_objects (observation)
    sorted,           \* what the last sort_objects returned (observation)
    scene,            \* entity -> its components, as the last LightingSystem run saw them
    light_repository, \* the LightRepository resource
    replaced,         \* what the LightRepository held when the last run started (history)
    transforms,       \* the arena of Transforms; a TransformId is a position in it
    edits,            \* number of writes through get_*_mut so far (history)
    pushed,           \* the set_to_context calls of the last set_uniforms_to_context (observation)
    console,          \* what that call wrote with console_warn (observation)
    quaternion,       \* the Quaternion q the program multiplies
    product           \* the last product: operands and value (observation)

material_vars == <<materials, instances, gl_programs, ret, backend, calls,
                   compiled_with, ever_compiled>>
render_vars == <<renderer, material_key, frame, sorted>>
light_vars == <<scene, light_repository, replaced>>
transform_vars == <<transforms, edits>>
push_vars == <<pushed, console>>
math_vars == <<quaternion, product>>
world_vars == <<light_vars, transform_vars, push_vars, math_vars>>
vars == <<material_vars, render_vars, world_vars>>

----------------------------------------------------------------------------
(* Bounds *)

\* Programs the device hands out before compile is no longer called.
MaxPrograms == 2
\* Longest batch given to push_uniforms.
MaxBatch == 2
\* register_mesh calls made on the Renderer.
MaxRegistered == 3
\* Largest material key, and longest bucket, of a mesh repository handed to
\* sort_objects on its own (it holds at most MaxRegistered entries).
MaxKey == 1
MaxBucket == 2
\* Entities of the scene the LightingSystem joins over.
MaxEntities == 2
\* Largest intensity of a Light.
MaxIntensity == 2
\* Transforms the arena holds at most when its links are explored.
MaxTransforms == 4
\* Transforms the arena holds at most when world matrices are explored, and
\* writes through get_*_mut explored.
MaxMoved == 2
MaxEdits == 2
\* Largest component of a Quaternion operand; a product is followed while its
\* components stay within -1..MaxComponent.
MaxComponent == 1

----------------------------------------------------------------------------
(* Values *)

NoProgram == 0
Programs == 1..MaxPrograms

MaterialIds == {"A", "B"}
\* A Mesh owns one MaterialInstance; both go by the same id.
InstanceIds == {1, 2, 3}
MeshIds == InstanceIds
\* The Material each MaterialInstance was constructed with.
InstanceParent == (1 :> "A") @@ (2 :> "A") @@ (3 :> "B")

\* Numbers of lights of one category that the explored scenes hold.
LightCounts == {0, 1}
LightConfigurations ==
    [directional : LightCounts, point : LightCounts, spot : LightCounts]
DefaultLightConfiguration == [directional |-> 0, point |-> 0, spot |-> 0]

\* Shader sources a Material may be constructed with.
ShaderTexts == {"void main(){}", "uniform Light lights[NUM_DIR_LIGHTS];"}
\* str::contains("Light") on those texts.
ContainsLight(text) == text \in {"uniform Light lights[NUM_DIR_LIGHTS];"}

AttributeNames == {"position", "normal", "uv"}
UniformNames == {"a", "b"}
UniformValues == {1, 2}
\* A Uniform as the caller builds it: its location is not looked up yet.
NewUniforms ==
    [name : UniformNames, value : UniformValues, location : {NoProgram}]

Batches ==
    UNION {[1..n -> NewUniforms] : n \in 0..MaxBatch}

\* Result<(), String>
Ok == [ok |-> TRUE, err |-> ""]
Err(message) == [ok |-> FALSE, err |-> message]
\* No compile has returned since the last other call.
NoReturn == [op |-> "none", ok |-> TRUE, err |-> ""]
Returned(result) == [op |-> "compile", ok |-> result.ok, err |-> result.err]

----------------------------------------------------------------------------
(* The graphics device's answers to one compile call *)

\* get_shader_info_log / get_program_info_log returned None.
NoLog == "<no info log>"
InfoLogs == {"ERROR: 0:1: syntax error", "ERROR: varyings do not match"}

\* One stage as the device answers it: was the object created, what does
\* COMPILE_STATUS / LINK_STATUS say, what does the info log hold.
StageOk == [created |-> TRUE, status |-> TRUE, log |-> NoLog]
StageFailures ==
    {[created |-> FALSE, status |-> FALSE, log |-> NoLog]}
    \cup {[created |-> TRUE, status |-> FALSE, log |-> l] : l \in InfoLogs \cup {NoLog}}
StageAnswers == {StageOk} \cup StageFailures
\* A stage the call never reaches, because an earlier one failed.
NotReached == [created |-> FALSE, status |-> FALSE, log |-> "<not reached>"]

\* No compile has run since the last other call.
NoSession == [vertex |-> NotReached, fragment |-> NotReached, link |-> NotReached]

BackendSessions ==
    {[vertex |-> v, fragment |-> NotReached, link |-> NotReached] : v \in StageFailures}
    \cup {[vertex |-> StageOk, fragment |-> f, link |-> NotReached] : f \in StageFailures}
    \cup {[vertex |-> StageOk, fragment |-> StageOk, link |-> l] : l \in StageAnswers}

compile_shader(answer) ==
    IF ~answer.created THEN Err("Unable to create shader object")
    ELSE IF answer.status THEN Ok
    ELSE Err(IF answer.log = NoLog THEN "Unknown error creating shader" ELSE answer.log)

\* The program handle is `fresh` when linking succeeds.
link_program(answer, fresh) ==
    IF ~answer.created
    THEN [ok |-> FALSE, err |-> "Unable to create shader object", program |-> NoProgram]
    ELSE IF answer.status
    THEN [ok |-> TRUE, err |-> "", program |-> fresh]
    ELSE [ok |-> FALSE,
          err |-> IF answer.log = NoLog THEN "Unknown error creating program object"
                  ELSE answer.log,
          program |-> NoProgram]

----------------------------------------------------------------------------
(* Uniform and GlobalUniformLocations (renderer/uniform.rs) *)

\* Uniform::lookup_location: asks the device for the uniform's location in
\* `program`; without a program there is nothing to ask.
Uniform_lookup_location(uniform, program) ==
    IF program = NoProgram THEN uniform ELSE [uniform EXCEPT !.location = program]

GlobalUniformLocations_new == [vp_matrix_location |-> NoProgram]

GlobalUniformLocations_lookup_locations(locations, program, light_config) ==
    IF program = NoProgram THEN locations
    ELSE [locations EXCEPT !.vp_matrix_location = program]

\* One entry of the log of lookups a call issued.
Lookup(owner, name, program) == [owner |-> owner, name |-> name, program |-> program]

\* Position of the first entry of a Vec<(String, Uniform)> keyed `name`, 0 if none.
FirstIndex(uniforms, name) ==
    LET hits == {i \in 1..Len(uniforms) : uniforms[i][1] = name}
    IN IF hits = {} THEN 0 ELSE CHOOSE i \in hits : \A j \in hits : i <= j

----------------------------------------------------------------------------
(* Material *)

Material_new(vert, frag) ==
    [program |-> NoProgram,
     opaque |-> TRUE,
     lit |-> ContainsLight(vert) \/ ContainsLight(frag),
     vertex_shader |-> vert,
     fragment_shader |-> frag,
     attribute_locations |-> <<>>,
     shared_uniforms |-> <<>>,
     global_uniform_locations |-> GlobalUniformLocations_new,
     light_configuration |-> DefaultLightConfiguration,
     lookup_done |-> FALSE]

\* compile as if the link result were stored before it is checked.
Material_compile_stores_failed_link(self, light_config, io, fresh) ==
    LET cleared == [self EXCEPT !.lookup_done = FALSE]
        vertex == compile_shader(io.vertex)
        fragment == compile_shader(io.fragment)
        linked == link_program(io.link, fresh)
    IN IF ~vertex.ok THEN [self |-> cleared, result |-> Err(vertex.err)]
       ELSE IF ~fragment.ok THEN [self |-> cleared, result |-> Err(fragment.err)]
       ELSE IF ~linked.ok
       THEN [self |-> [cleared EXCEPT !.program = linked.program],
             result |-> Err(linked.err)]
       ELSE [self |-> [cleared EXCEPT !.program = linked.program], result |-> Ok]

\* compile as if it dropped the old program before building the new one.
Material_compile_drops_program_first(self, light_config, io, fresh) ==
    LET cleared == [self EXCEPT !.lookup_done = FALSE, !.program = NoProgram]
        vertex == compile_shader(io.vertex)
        fragment == compile_shader(io.fragment)
        linked == link_program(io.link, fresh)
    IN IF ~vertex.ok THEN [self |-> cleared, result |-> Err(vertex.err)]
       ELSE IF ~fragment.ok THEN [self |-> cleared, result |-> Err(fragment.err)]
       ELSE IF ~linked.ok THEN [self |-> cleared, result |-> Err(linked.err)]
       ELSE [self |-> [cleared EXCEPT !.program = linked.program], result |-> Ok]

\* compile as if it left lookup_done alone.
Material_compile_keeps_lookup_done(self, light_config, io, fresh) ==
    LET vertex == compile_shader(io.vertex)
        fragment == compile_shader(io.fragment)
        linked == link_program(io.link, fresh)
    IN IF ~vertex.ok THEN [self |-> self, result |-> Err(vertex.err)]
       ELSE IF ~fragment.ok THEN [self |-> self, result |-> Err(fragment.err)]
       ELSE IF ~linked.ok THEN [self |-> self, result |-> Err(linked.err)]
       ELSE [self |-> [self EXCEPT !.program = linked.program], result |-> Ok]

\* Material::compile: the Material afterwards and the Result returned.
\* The three `?` return early, after lookup_done was cleared.
Material_compile(self, light_config, io, fresh) ==
    LET cleared == [self EXCEPT !.lookup_done = FALSE]
        vertex == compile_shader(io.vertex)
        fragment == compile_shader(io.fragment)
        linked == link_program(io.link, fresh)
    IN IF ~vertex.ok THEN [self |-> cleared, result |-> Err(vertex.err)]
       ELSE IF ~fragment.ok THEN [self |-> cleared, result |-> Err(fragment.err)]
       ELSE IF ~linked.ok THEN [self |-> cleared, result |-> Err(linked.err)]
       ELSE [self |-> [cleared EXCEPT !.program = linked.program], result |-> Ok]

\* should_compile as if it compared configurations for every Material.
Material_should_compile_ignores_lit(self, light_config) ==
    self.program = NoProgram \/ light_config # self.light_configuration

Material_should_compile(self, light_config) ==
    self.program = NoProgram \/ (self.lit /\ light_config # self.light_configuration)

\* attribute_locations is a HashMap<String, i32>: a function from the names
\* registered so far to the location the device gave; a location is modelled
\* by the program it was queried from.
\* register_new_attribute_location; `self.program.as_ref().unwrap()` needs a
\* program.
Material_register_new_attribute_location(self, name) ==
    IF name \notin DOMAIN self.attribute_locations
    THEN [self EXCEPT !.attribute_locations = @ @@ (name :> self.program)]
    ELSE self

\* get_attribute_location: Option<i32>, None being the empty sequence.
Material_get_attribute_location(self, name) ==
    IF name \in DOMAIN self.attribute_locations
    THEN <<self.attribute_locations[name]>>
    ELSE <<>>

\* Material::lookup_locations: the Material afterwards and the lookups issued.
Material_lookup_locations(self, light_config) ==
    IF self.lookup_done THEN [self |-> self, calls |-> <<>>]
    ELSE [self |->
            [self EXCEPT
               !.global_uniform_locations =
                   GlobalUniformLocations_lookup_locations(@, self.program, light_config),
               !.shared_uniforms =
                   [i \in 1..Len(@) |->
                       <<@[i][1], Uniform_lookup_location(@[i][2], self.program)>>],
               !.lookup_done = TRUE],
          calls |->
            <<Lookup("global", "vp_matrix", self.program)>>
            \o [i \in 1..Len(self.shared_uniforms) |->
                   Lookup("material", self.shared_uniforms[i][1], self.program)]]

Material_set_transparent(self, transparent) == [self EXCEPT !.opaque = ~transparent]

Material_is_transparent(self) == ~self.opaque

\* set_uniform as if it never looked for the name.
Material_set_uniform_always_appends(self, uniform_to_set) ==
    [self EXCEPT !.shared_uniforms = Append(@, <<uniform_to_set.name, uniform_to_set>>)]

Material_set_uniform(self, uniform_to_set) ==
    LET i == FirstIndex(self.shared_uniforms, uniform_to_set.name)
    IN IF i # 0
       THEN [self EXCEPT !.shared_uniforms[i] = <<@[1], uniform_to_set>>]
       ELSE [self EXCEPT !.shared_uniforms =
                Append(@, <<uniform_to_set.name, uniform_to_set>>)]

RECURSIVE Material_push_uniforms(_, _)
Material_push_uniforms(self, uniforms) ==
    IF uniforms = <<>> THEN self
    ELSE Material_push_uniforms(Material_set_uniform(self, Head(uniforms)), Tail(uniforms))

----------------------------------------------------------------------------
(* MaterialInstance *)

MaterialInstance_new(parent_material) ==
    [parent_material |-> parent_material, uniforms |-> <<>>, lookup_done |-> FALSE]

\* lookup_locations as if it did not look the parent's locations up.
MaterialInstance_lookup_locations_skips_parent(self, parent, light_config) ==
    IF self.lookup_done THEN [self |-> self, parent |-> parent, calls |-> <<>>]
    ELSE [self |->
            [self EXCEPT
               !.uniforms =
                   [i \in 1..Len(@) |->
                       <<@[i][1], Uniform_lookup_location(@[i][2], parent.program)>>],
               !.lookup_done = TRUE],
          parent |-> parent,
          calls |->
            [i \in 1..Len(self.uniforms) |->
                Lookup("instance", self.uniforms[i][1], parent.program)]]

\* MaterialInstance::lookup_locations on the instance and its borrowed parent:
\* both afterwards, and the lookups issued, in order.
MaterialInstance_lookup_locations(self, parent, light_config) ==
    IF self.lookup_done THEN [self |-> self, parent |-> parent, calls |-> <<>>]
    ELSE LET looked == Material_lookup_locations(parent, light_config)
             parent_mat == looked.self
         IN [self |->
               [self EXCEPT
                  !.uniforms =
                      [i \in 1..Len(@) |->
                          <<@[i][1], Uniform_lookup_location(@[i][2], parent_mat.program)>>],
                  !.lookup_done = TRUE],
             parent |-> parent_mat,
             calls |->
               looked.calls
               \o [i \in 1..Len(self.uniforms) |->
                      Lookup("instance", self.uniforms[i][1], parent_mat.program)]]

MaterialInstance_set_uniform(self, uniform_to_set) ==
    LET i == FirstIndex(self.uniforms, uniform_to_set.name)
    IN IF i # 0
       THEN [self EXCEPT !.uniforms[i] = <<@[1], uniform_to_set>>]
       ELSE [self EXCEPT !.uniforms = Append(@, <<uniform_to_set.name, uniform_to_set>>)]

RECURSIVE MaterialInstance_push_uniforms(_, _)
MaterialInstance_push_uniforms(self, uniforms) ==
    IF uniforms = <<>> THEN self
    ELSE MaterialInstance_push_uniforms(
             MaterialInstance_set_uniform(self, Head(uniforms)), Tail(uniforms))

\* set_parent_uniform as if it left the parent's set alone.
MaterialInstance_set_parent_uniform_keeps_parent(self, parent, uniform_to_set) ==
    parent

\* MaterialInstance::set_parent_uniform: the parent afterwards.
MaterialInstance_set_parent_uniform(self, parent, uniform_to_set) ==
    Material_set_uniform(parent, uniform_to_set)

MaterialInstance_is_transparent(self, parent) == Material_is_transparent(parent)

----------------------------------------------------------------------------
(* Pushing a uniform set to the device *)

\* Uniform::set_to_context: the device takes the value, or the call fails
\* with a message.
Uniform_set_to_context(uniform, accepted) ==
    IF accepted THEN Ok ELSE Err(<<"uniform not set", uniform.name>>)

\* No set_uniforms_to_context has been called since the last other call.
NothingPushed == [owner |-> <<>>, attempts |-> <<>>]
Attempt(uniform, result) == [uniform |-> uniform.name, ok |-> result.ok]

\* The loop of set_uniforms_to_context as if a failed push were propagated
\* with `?`: what was attempted and warned until the loop ended, and the result.
RECURSIVE PushLoop_stops_at_failure(_, _)
PushLoop_stops_at_failure(uniforms, accepted) ==
    IF uniforms = <<>> THEN [attempts |-> <<>>, warnings |-> <<>>, result |-> Ok]
    ELSE LET uniform == Head(uniforms)[2]
             result == Uniform_set_to_context(uniform, Head(accepted))
             rest == PushLoop_stops_at_failure(Tail(uniforms), Tail(accepted))
         IN IF result.ok
            THEN [rest EXCEPT !.attempts = <<Attempt(uniform, result)>> \o @]
            ELSE [attempts |-> <<Attempt(uniform, result)>>, warnings |-> <<>>,
                  result |-> result]

\* for (_, uniform) in uniforms { uniform.set_to_context(context)
\*     .unwrap_or_else(|message| console_warn(message)) }  Ok(())
RECURSIVE PushLoop(_, _)
PushLoop(uniforms, accepted) ==
    IF uniforms = <<>> THEN [attempts |-> <<>>, warnings |-> <<>>, result |-> Ok]
    ELSE LET uniform == Head(uniforms)[2]
             result == Uniform_set_to_context(uniform, Head(accepted))
             rest == PushLoop(Tail(uniforms), Tail(accepted))
         IN [rest EXCEPT
                !.attempts = <<Attempt(uniform, result)>> \o @,
                !.warnings = (IF result.ok THEN <<>> ELSE <<result.err>>) \o @]

Material_set_uniforms_to_context_stops_at_failure(self, accepted) ==
    PushLoop_stops_at_failure(self.shared_uniforms, accepted)

\* Material::set_uniforms_to_context, the device accepting the i-th push
\* iff accepted[i].
Material_set_uniforms_to_context(self, accepted) ==
    PushLoop(self.shared_uniforms, accepted)

\* MaterialInstance::set_uniforms_to_context: the instance's own uniforms.
MaterialInstance_set_uniforms_to_context(self, accepted) ==
    PushLoop(self.uniforms, accepted)

----------------------------------------------------------------------------
(* Renderer *)

\* u32::max_value(), the sentinel render_objects starts current_id with:
\* 32 one bits, which the model checker's 32-bit integers hold as -1.
U32Max == -1
\* Option<u32>: None is the empty sequence, Some(k) is <<k>>.
NoKey == <<>>

Renderer_new == [mesh_repository |-> <<>>, next_material_id |-> 0]

\* get_parent_id(next_id): the parent Material's numeric id; a Material that
\* has none takes next_id.
MaterialInstance_get_parent_id(key, next_id) == IF key = NoKey THEN next_id ELSE key[1]

\* Mesh::lookup_locations: the Mesh looks the locations of its material up.
Mesh_lookup_locations(instance, parent) ==
    MaterialInstance_lookup_locations(instance, parent, DefaultLightConfiguration)

\* register_mesh as if it inserted a fresh bucket whether or not the key exists.
Renderer_register_mesh_replaces_bucket(self, mesh, id) ==
    [self EXCEPT !.mesh_repository =
        [k \in DOMAIN @ \cup {id} |-> IF k = id THEN <<mesh>> ELSE @[k]]]

\* register_mesh, once the Material's id is known: the Renderer afterwards.
Renderer_register_mesh(self, mesh, id) ==
    IF id \in DOMAIN self.mesh_repository
    THEN [self EXCEPT !.mesh_repository[id] = Append(@, mesh)]
    ELSE [self EXCEPT !.mesh_repository = @ @@ (id :> <<mesh>>)]

\* The orders in which a HashMap may hand out the keys of the repository.
KeyOrders(repository) ==
    LET keys == DOMAIN repository
        n == Cardinality(keys)
    IN {order \in [1..n -> keys] : \A i, j \in 1..n : order[i] = order[j] => i = j}

\* The buckets one after the other, in the given order of keys.
RECURSIVE Buckets(_, _)
Buckets(repository, order) ==
    IF order = <<>> THEN <<>>
    ELSE repository[Head(order)] \o Buckets(repository, Tail(order))

\* sort_objects as if the transparent meshes were put first.
Renderer_sort_objects_transparent_first(self, order, transparent) ==
    LET meshes == Buckets(self.mesh_repository, order)
        IsTransparent(mesh) == transparent[mesh]
        IsOpaque(mesh) == ~transparent[mesh]
    IN SelectSeq(meshes, IsTransparent) \o SelectSeq(meshes, IsOpaque)

\* sort_objects, the HashMap iterating in `order`; transparent[mesh] is
\* mesh.material.is_transparent().
Renderer_sort_objects(self, order, transparent) ==
    LET meshes == Buckets(self.mesh_repository, order)
        IsTransparent(mesh) == transparent[mesh]
        IsOpaque(mesh) == ~transparent[mesh]
        opaque_meshes == SelectSeq(meshes, IsOpaque)
        transparent_meshes == SelectSeq(meshes, IsTransparent)
    IN opaque_meshes \o transparent_meshes

\* Device calls, as the frame records them.
UseProgram(material, program) ==
    [call |-> "use_program", material |-> material, program |-> program, mesh |-> 0,
     uniform |-> ""]
CameraUniform(material, location) ==
    [call |-> "vp_matrix", material |-> material, program |-> location, mesh |-> 0,
     uniform |-> "vp_matrix"]
DrawArrays(mesh) ==
    [call |-> "draw_arrays", material |-> "", program |-> NoProgram, mesh |-> mesh,
     uniform |-> ""]
DeviceCall(name) ==
    [call |-> name, material |-> "", program |-> NoProgram, mesh |-> 0, uniform |-> ""]

\* The loop of render_objects over the sorted meshes.
RECURSIVE RenderLoop(_, _, _, _)
RenderLoop(meshes, current_id, mats, keys) ==
    IF meshes = <<>> THEN <<>>
    ELSE LET mesh == Head(meshes)
             parent == InstanceParent[mesh]
             material_id == MaterialInstance_get_parent_id(keys[parent], 0)
         IN (IF material_id # current_id
             THEN <<UseProgram(parent, mats[parent].program),
                    CameraUniform(parent,
                        mats[parent].global_uniform_locations.vp_matrix_location)>>
             ELSE <<>>)
            \o <<DrawArrays(mesh)>>
            \o RenderLoop(Tail(meshes), material_id, mats, keys)

\* render_objects: the device calls of one frame.
Renderer_render_objects(self, order, mats, keys) ==
    LET transparent == [mesh \in MeshIds |->
                           MaterialInstance_is_transparent(mesh, mats[InstanceParent[mesh]])]
        meshes == Renderer_sort_objects(self, order, transparent)
    IN <<DeviceCall("clear_color"), DeviceCall("clear"),
         DeviceCall("enable CULL_FACE"), DeviceCall("enable DEPTH_TEST")>>
       \o RenderLoop(meshes, U32Max, mats, keys)

\* sort_objects has not been called.
NotSorted == [done |-> FALSE, meshes |-> <<>>]

----------------------------------------------------------------------------
(* LightingSystem (src/src/system/lighting_system.rs) *)

\* Option<T>: None is the empty sequence, Some(v) is <<v>>.
None == <<>>
Some(v) == <<v>>

EntityIds == 1..MaxEntities

\* nalgebra's Vector3<f32>, on values small enough for f32 to hold exactly.
Vector3_new(x, y, z) == <<x, y, z>>
Vector3_scale(v, k) == <<v[1] * k, v[2] * k, v[3] * k>>
Vector3_add(a, b) == <<a[1] + b[1], a[2] + b[2], a[3] + b[3]>>

Red == Vector3_new(1, 0, 0)
Blue == Vector3_new(0, 0, 1)
White == Vector3_new(1, 1, 1)

\* component::Light
Light_new(color, intensity) == [color |-> color, intensity |-> intensity, attenuation |-> 0]
Lights == {Light_new(color, intensity) : color \in {Red, Blue}, intensity \in 1..MaxIntensity}
\* A Light that tells which entity carries it: no two sets of entities have
\* the same sum of intensities.
TagLight(e) == Light_new(White, 2 ^ (e - 1))

\* component::Transform, of which the LightingSystem reads the world matrix.
TransformOf(e) == [world_matrix |-> <<"world matrix of entity", e>>]
Transform_get_world_matrix(transform) == transform.world_matrix

DirectionDown == "Direction(0, -1, 0)"
NarrowCone == "Cone(30)"

\* The components one entity may carry, its Light among `lights`.
ComponentChoices(e, lights) ==
    [light : {None} \cup {Some(l) : l \in lights},
     enabled : BOOLEAN,
     transform : {None, Some(TransformOf(e))},
     direction : {None, Some(DirectionDown)},
     cone : {None, Some(NarrowCone)}]

NoComponents ==
    [light |-> None, enabled |-> FALSE, transform |-> None, direction |-> None,
     cone |-> None]

\* #[derive(Default)] LightRepository
LightRepository_default ==
    [ambiant |-> None, directional |-> <<>>, point |-> <<>>, spot |-> <<>>]

\* What a run starts from, in short: whether the repository holds an ambient
\* light, and the lengths of its lists.
Census(repository) ==
    [ambiant |-> repository.ambiant # None,
     directional |-> Len(repository.directional),
     point |-> Len(repository.point),
     spot |-> Len(repository.spot)]

\* The elements of a set of entities, in ascending order.
RECURSIVE Ascending(_)
Ascending(entities) ==
    IF entities = {} THEN <<>>
    ELSE LET least == CHOOSE e \in entities : \A f \in entities : e <= f
         IN <<least>> \o Ascending(entities \ {least})

\* (&entities, &lights, &enableds).join(): the entities that carry a Light and
\* Enabled, in the order of their ids.
Join(world) ==
    Ascending({e \in DOMAIN world : world[e].light # None /\ world[e].enabled})

\* The ambient fold as if the color were not weighted by the light's intensity.
Ambiant_fold_unweighted(ambiant, light) ==
    [ambiant EXCEPT
        !.color = Vector3_add(Vector3_scale(ambiant.color, ambiant.intensity), light.color),
        !.intensity = ambiant.intensity + light.intensity]

\* The ambient fold as if the intensity were overwritten instead of added to.
Ambiant_fold_overwrites_intensity(ambiant, light) ==
    [ambiant EXCEPT
        !.color = Vector3_add(Vector3_scale(ambiant.color, ambiant.intensity),
                              Vector3_scale(light.color, light.intensity)),
        !.intensity = light.intensity]

\* The two assignments of the ambient branch of run.
Ambiant_fold(ambiant, light) ==
    [ambiant EXCEPT
        !.color = Vector3_add(Vector3_scale(ambiant.color, ambiant.intensity),
                              Vector3_scale(light.color, light.intensity)),
        !.intensity = ambiant.intensity + light.intensity]

\* The loop body of run as if a cone did not keep a light out of the
\* directional bucket.
LightingSystem_run_entity_ignores_cone(components, st) ==
    LET light == components.light[1]
        direction_opt == components.direction
        transform_opt == components.transform
        cone_opt == components.cone
    IN IF direction_opt # None
       THEN [st EXCEPT !.repository.directional = Append(@, <<light, direction_opt[1]>>)]
       ELSE IF transform_opt # None /\ cone_opt = None
       THEN [st EXCEPT !.repository.point =
                Append(@, <<light, Transform_get_world_matrix(transform_opt[1])>>)]
       ELSE IF transform_opt = None /\ cone_opt = None
       THEN [st EXCEPT !.some_ambiant = TRUE, !.ambiant = Ambiant_fold(@, light)]
       ELSE st

\* The loop body of run, for one joined entity: st holds the repository, the
\* local `ambiant` and the local `some_ambiant`.
LightingSystem_run_entity(components, st) ==
    LET light == components.light[1]
        direction_opt == components.direction
        transform_opt == components.transform
        cone_opt == components.cone
    IN IF direction_opt # None /\ cone_opt = None
       THEN [st EXCEPT !.repository.directional = Append(@, <<light, direction_opt[1]>>)]
       ELSE IF transform_opt # None /\ cone_opt = None /\ direction_opt = None
       THEN [st EXCEPT !.repository.point =
                Append(@, <<light, Transform_get_world_matrix(transform_opt[1])>>)]
       ELSE IF direction_opt # None /\ cone_opt # None /\ transform_opt # None
       THEN [st EXCEPT !.repository.spot =
                Append(@, <<light, Transform_get_world_matrix(transform_opt[1]),
                            direction_opt[1], cone_opt[1]>>)]
       ELSE IF transform_opt = None /\ cone_opt = None /\ direction_opt = None
       THEN [st EXCEPT !.some_ambiant = TRUE, !.ambiant = Ambiant_fold(@, light)]
       ELSE st

RECURSIVE LightingSystem_run_loop(_, _, _)
LightingSystem_run_loop(joined, world, st) ==
    IF joined = <<>> THEN st
    ELSE LightingSystem_run_loop(Tail(joined), world,
             LightingSystem_run_entity(world[Head(joined)], st))

\* run as if the directional and point lists were not cleared first.
LightingSystem_run_keeps_lists(world, repository) ==
    LET done == LightingSystem_run_loop(Join(world), world,
                    [repository |-> [repository EXCEPT !.ambiant = None, !.spot = <<>>],
                     ambiant |-> Light_new(Vector3_new(0, 0, 0), 0),
                     some_ambiant |-> FALSE])
    IN IF done.some_ambiant
       THEN [done.repository EXCEPT !.ambiant = Some(done.ambiant)]
       ELSE done.repository

\* LightingSystem::run over the component storages `world`: the
\* LightRepository afterwards.
LightingSystem_run(world, repository) ==
    LET cleared == [repository EXCEPT !.ambiant = None, !.directional = <<>>,
                                      !.point = <<>>, !.spot = <<>>]
        done == LightingSystem_run_loop(Join(world), world,
                    [repository |-> cleared,
                     ambiant |-> Light_new(Vector3_new(0, 0, 0), 0),
                     some_ambiant |-> FALSE])
    IN IF done.some_ambiant
       THEN [done.repository EXCEPT !.ambiant = Some(done.ambiant)]
       ELSE done.repository

----------------------------------------------------------------------------
(* Transform (src/src/scene/transform.rs) and the arena that holds them *)

\* math::Matrix4, as the product of local matrices it stands for: the
\* identity is the empty product, and a local matrix is the one factor made
\* of the translation, rotation and scale it was built from.
Matrix4_identity == <<>>
Matrix4_mul(a, b) == a \o b
LocalMatrix(transform) ==
    <<<<transform.translation, transform.rotation, transform.scale>>>>

\* Transform::new as if the node were created as a sibling of the first slot.
Transform_new_linked(t, r, s) ==
    [translation |-> t, rotation |-> r, scale |-> s, dirty |-> TRUE, dead |-> FALSE,
     matrix |-> Matrix4_identity, parent |-> None, first_child |-> None,
     last_child |-> None, next_sibling |-> None, previous_sibling |-> Some(1)]

Transform_new(t, r, s) ==
    [translation |-> t, rotation |-> r, scale |-> s, dirty |-> TRUE, dead |-> FALSE,
     matrix |-> Matrix4_identity, parent |-> None, first_child |-> None,
     last_child |-> None, next_sibling |-> None, previous_sibling |-> None]

\* *transform.get_position_mut() = v, and likewise for rotation and scale:
\* the getter hands out the field and touches nothing else.
Transform_get_position_mut(self, v) == [self EXCEPT !.translation = v]
Transform_get_rotation_mut(self, v) == [self EXCEPT !.rotation = v]
Transform_get_scale_mut(self, v) == [self EXCEPT !.scale = v]

\* The nodes below `node`: its children, their children, and so on.
RECURSIVE Descendants(_, _)
Descendants(arena, node) ==
    LET children == {n \in DOMAIN arena : arena[n].parent = Some(node)}
    IN children \cup UNION {Descendants(arena, n) : n \in children}

\* The nodes above `node`, nearest first.
RECURSIVE Ancestors(_, _)
Ancestors(arena, node) ==
    IF arena[node].parent = None THEN <<>>
    ELSE <<arena[node].parent[1]>> \o Ancestors(arena, arena[node].parent[1])

\* create(translation, rotation, scale): a new detached node at the end of the arena.
Arena_create(arena, t, r, s) == Append(arena, Transform_new(t, r, s))

\* mark_dirty(node): the node and every descendant become dirty.
Arena_mark_dirty(arena, node) ==
    [n \in DOMAIN arena |->
        IF n = node \/ n \in Descendants(arena, node)
        THEN [arena[n] EXCEPT !.dirty = TRUE] ELSE arena[n]]

\* attach(child, parent): the child is spliced in at the tail of the
\* parent's sibling list; its world matrix now depends on new ancestors.
Arena_attach(arena, child, parent) ==
    LET last == arena[parent].last_child
        linked ==
            [n \in DOMAIN arena |->
                IF n = child
                THEN [arena[n] EXCEPT !.parent = Some(parent),
                                      !.previous_sibling = last,
                                      !.next_sibling = None]
                ELSE IF n = parent
                THEN [arena[n] EXCEPT !.first_child = IF last = None THEN Some(child) ELSE @,
                                      !.last_child = Some(child)]
                ELSE IF last = Some(n)
                THEN [arena[n] EXCEPT !.next_sibling = Some(child)]
                ELSE arena[n]]
    IN Arena_mark_dirty(linked, child)

\* detach(node): the node leaves its sibling list, its neighbours and its
\* parent's first/last pointers are patched, and the node is marked dead.
Arena_detach(arena, node) ==
    LET self == arena[node]
    IN [n \in DOMAIN arena |->
           IF n = node
           THEN [self EXCEPT !.dead = TRUE, !.parent = None,
                             !.next_sibling = None, !.previous_sibling = None]
           ELSE LET patched_next ==
                        IF self.previous_sibling = Some(n)
                        THEN [arena[n] EXCEPT !.next_sibling = self.next_sibling]
                        ELSE arena[n]
                    patched_previous ==
                        IF self.next_sibling = Some(n)
                        THEN [patched_next EXCEPT !.previous_sibling = self.previous_sibling]
                        ELSE patched_next
                IN IF self.parent = Some(n)
                   THEN [patched_previous EXCEPT
                            !.first_child = IF @ = Some(node) THEN self.next_sibling ELSE @,
                            !.last_child = IF @ = Some(node) THEN self.previous_sibling ELSE @]
                   ELSE patched_previous]

\* get_world_matrix(node): a dirty node recomputes parent world matrix times
\* local matrix (the local matrix alone for a root), caches it and is clean.
RECURSIVE Arena_get_world_matrix(_, _)
Arena_get_world_matrix(arena, node) ==
    IF ~arena[node].dirty THEN [arena |-> arena, matrix |-> arena[node].matrix]
    ELSE LET above == IF arena[node].parent = None
                      THEN [arena |-> arena, matrix |-> Matrix4_identity]
                      ELSE Arena_get_world_matrix(arena, arena[node].parent[1])
             world == Matrix4_mul(above.matrix, LocalMatrix(arena[node]))
         IN [arena |-> [above.arena EXCEPT ![node].matrix = world, ![node].dirty = FALSE],
             matrix |-> world]

----------------------------------------------------------------------------
(* Quaternion *)

\* An f32 component is modelled by a small integer, which f32 holds exactly.
Quaternion_new(x, y, z, w) == [x |-> x, y |-> y, z |-> z, w |-> w]

Quaternion_identity == Quaternion_new(0, 0, 0, 1)

Quaternion_equals(self, quat) ==
    self.x = quat.x /\ self.y = quat.y /\ self.w = quat.w /\ self.z = quat.z

\* The product as if the scalar part of the right operand never scaled the
\* vector part of the left one.
Quaternion_mul_drops_scalar(self, quat) ==
    [x |-> self.w * quat.x + self.y * quat.z - self.z * quat.y,
     y |-> self.w * quat.y + self.z * quat.x - self.x * quat.z,
     z |-> self.w * quat.z + self.x * quat.y - self.y * quat.x,
     w |-> self.w * quat.w - self.x * quat.x - self.y * quat.y - self.z * quat.z]

\* &Quaternion * &Quaternion
Quaternion_mul(self, quat) ==
    [x |-> self.x * quat.w + self.w * quat.x + self.y * quat.z - self.z * quat.y,
     y |-> self.y * quat.w + self.w * quat.y + self.z * quat.x - self.x * quat.z,
     z |-> self.z * quat.w + self.w * quat.z + self.x * quat.y - self.y * quat.x,
     w |-> self.w * quat.w - self.x * quat.x - self.y * quat.y - self.z * quat.z]

\* Quaternion * Quaternion, by value: `&self * &quat`.
Quaternion_mul_owned(self, quat) == Quaternion_mul(self, quat)

\* Quaternion *= Quaternion: four assignments in order, each reading the
\* fields of self as the assignments before it left them.
Quaternion_mul_assign(self, quat) ==
    LET s1 == [self EXCEPT !.x =
                  self.x * quat.w + self.w * quat.x + self.y * quat.z - self.z * quat.y]
        s2 == [s1 EXCEPT !.y =
                  s1.y * quat.w + s1.w * quat.y + s1.z * quat.x - s1.x * quat.z]
        s3 == [s2 EXCEPT !.z =
                  s2.z * quat.w + s2.w * quat.z + s2.x * quat.y - s2.y * quat.x]
    IN [s3 EXCEPT !.w =
           s3.w * quat.w - s3.x * quat.x - s3.y * quat.y - s3.z * quat.z]

\* The operands the products are explored on, and the values followed.
Operands ==
    {Quaternion_new(x, y, z, w) : x \in 0..MaxComponent, y \in 0..MaxComponent,
                                  z \in 0..MaxComponent, w \in 0..MaxComponent}
Followed(quat) ==
    \A c \in {quat.x, quat.y, quat.z, quat.w} : c \in (0 - 1)..MaxComponent

NoProduct == [op |-> "none", lhs |-> Quaternion_identity, rhs |-> Quaternion_identity,
              value |-> Quaternion_identity]

----------------------------------------------------------------------------
(* Operations on Materials and MaterialInstances *)

\* The Material whose life cycle is explored, and its instances; the other
\* Material stays as constructed.
MaterialScope == {"A"}
InstanceScope == {i \in InstanceIds : InstanceParent[i] \in MaterialScope}
PlainShader == "void main(){}"

\* Everything but the Materials, the Renderer and the Quaternion, as constructed.
FreshWorld ==
    /\ instances = [i \in InstanceIds |-> MaterialInstance_new(InstanceParent[i])]
    /\ gl_programs = 0
    /\ ret = NoReturn
    /\ backend = NoSession
    /\ calls = <<>>
    /\ compiled_with = [m \in MaterialIds |-> DefaultLightConfiguration]
    /\ ever_compiled = [m \in MaterialIds |-> FALSE]
    /\ material_key = [m \in MaterialIds |-> NoKey]
    /\ frame = <<>>
    /\ sorted = NotSorted
    /\ scene = [e \in EntityIds |-> NoComponents]
    /\ light_repository = LightRepository_default
    /\ replaced = Census(LightRepository_default)
    /\ transforms = <<>>
    /\ edits = 0
    /\ pushed = NothingPushed
    /\ console = <<>>
    /\ product = NoProduct

Fresh ==
    /\ FreshWorld
    /\ quaternion = Quaternion_identity

Init ==
    /\ \E vert \in ShaderTexts, frag \in ShaderTexts :
          materials = [m \in MaterialIds |->
                          IF m \in MaterialScope THEN Material_new(vert, frag)
                          ELSE Material_new(PlainShader, PlainShader)]
    /\ renderer = Renderer_new
    /\ Fresh

\* Both Materials constructed from shaders without the lighting marker.
InitPlain ==
    /\ materials = [m \in MaterialIds |-> Material_new(PlainShader, PlainShader)]
    /\ renderer = Renderer_new
    /\ Fresh

\* material.compile(context, light_config), the device answering with io.
CompileWith(m, light_config, io) ==
    /\ io.link.status => gl_programs < MaxPrograms
    /\ LET done == Material_compile(materials[m], light_config, io, gl_programs + 1)
       IN /\ materials' = [materials EXCEPT ![m] = done.self]
          /\ ret' = Returned(done.result)
          /\ backend' = io
          /\ gl_programs' = IF done.result.ok THEN gl_programs + 1 ELSE gl_programs
          /\ compiled_with' = IF done.result.ok
                               THEN [compiled_with EXCEPT ![m] = light_config]
                               ELSE compiled_with
          /\ ever_compiled' = [ever_compiled EXCEPT ![m] = @ \/ done.result.ok]
    /\ calls' = <<>>
    /\ UNCHANGED <<instances, render_vars, world_vars>>

Compile(configs, sessions) ==
    \E m \in MaterialScope, light_config \in configs, io \in sessions :
        CompileWith(m, light_config, io)

\* material.lookup_locations(context, light_config)
LookupLocationsOf(m, light_config) ==
    /\ LET looked == Material_lookup_locations(materials[m], light_config)
       IN /\ materials' = [materials EXCEPT ![m] = looked.self]
          /\ calls' = looked.calls
    /\ ret' = NoReturn
    /\ backend' = NoSession
    /\ UNCHANGED <<instances, gl_programs, compiled_with, ever_compiled, render_vars, world_vars>>

LookupLocations(configs) ==
    \E m \in MaterialScope, light_config \in configs : LookupLocationsOf(m, light_config)

\* material.register_new_attribute_location(context, name); the unwrap of
\* the program panics on a Material that was never compiled.
RegisterNewAttributeLocation ==
    \E m \in MaterialScope, name \in AttributeNames :
        /\ materials[m].program # NoProgram
        /\ materials' = [materials EXCEPT ![m] =
                             Material_register_new_attribute_location(@, name)]
        /\ ret' = NoReturn
        /\ backend' = NoSession
        /\ calls' = <<>>
        /\ UNCHANGED <<instances, gl_programs, compiled_with, ever_compiled,
                       render_vars, world_vars>>

\* material.set_uniform(uniform)
SetUniformOf(m, uniform) ==
    /\ materials' = [materials EXCEPT ![m] = Material_set_uniform(@, uniform)]
    /\ ret' = NoReturn
    /\ backend' = NoSession
    /\ calls' = <<>>
    /\ UNCHANGED <<instances, gl_programs, compiled_with, ever_compiled, render_vars, world_vars>>

SetUniform(uniforms) ==
    \E m \in MaterialScope, uniform \in uniforms : SetUniformOf(m, uniform)

\* material.push_uniforms(batch)
PushUniformsOf(m, batch) ==
    /\ materials' = [materials EXCEPT ![m] = Material_push_uniforms(@, batch)]
    /\ ret' = NoReturn
    /\ backend' = NoSession
    /\ calls' = <<>>
    /\ UNCHANGED <<instances, gl_programs, compiled_with, ever_compiled, render_vars, world_vars>>

PushUniforms(batches) ==
    \E m \in MaterialScope, batch \in batches : PushUniformsOf(m, batch)

\* instance.lookup_locations(context, light_config)
InstanceLookupLocationsOf(i, light_config) ==
    /\ LET m == instances[i].parent_material
           looked == MaterialInstance_lookup_locations(instances[i], materials[m], light_config)
       IN /\ instances' = [instances EXCEPT ![i] = looked.self]
          /\ materials' = [materials EXCEPT ![m] = looked.parent]
          /\ calls' = looked.calls
    /\ ret' = NoReturn
    /\ backend' = NoSession
    /\ UNCHANGED <<gl_programs, compiled_with, ever_compiled, render_vars, world_vars>>

InstanceLookupLocations(configs) ==
    \E i \in InstanceScope, light_config \in configs :
        InstanceLookupLocationsOf(i, light_config)

\* instance.set_uniform(uniform)
InstanceSetUniformOf(i, uniform) ==
    /\ instances' = [instances EXCEPT ![i] = MaterialInstance_set_uniform(@, uniform)]
    /\ ret' = NoReturn
    /\ backend' = NoSession
    /\ calls' = <<>>
    /\ UNCHANGED <<materials, gl_programs, compiled_with, ever_compiled, render_vars, world_vars>>

InstanceSetUniform(uniforms) ==
    \E i \in InstanceScope, uniform \in uniforms : InstanceSetUniformOf(i, uniform)

\* instance.push_uniforms(batch)
InstancePushUniformsOf(i, batch) ==
    /\ instances' = [instances EXCEPT ![i] = MaterialInstance_push_uniforms(@, batch)]
    /\ ret' = NoReturn
    /\ backend' = NoSession
    /\ calls' = <<>>
    /\ UNCHANGED <<materials, gl_programs, compiled_with, ever_compiled, render_vars, world_vars>>

InstancePushUniforms(batches) ==
    \E i \in InstanceScope, batch \in batches : InstancePushUniformsOf(i, batch)

\* instance.set_parent_uniform(uniform)
InstanceSetParentUniformOf(i, uniform) ==
    /\ LET m == instances[i].parent_material
       IN materials' = [materials EXCEPT ![m] =
                           MaterialInstance_set_parent_uniform(instances[i], @, uniform)]
    /\ ret' = NoReturn
    /\ backend' = NoSession
    /\ calls' = <<>>
    /\ UNCHANGED <<instances, gl_programs, compiled_with, ever_compiled, render_vars, world_vars>>

InstanceSetParentUniform(uniforms) ==
    \E i \in InstanceScope, uniform \in uniforms : InstanceSetParentUniformOf(i, uniform)

\* What the device answers to n pushes: each accepted or not.
Acceptances(n) == [1..n -> BOOLEAN]

ReturnedFrom(op, result) == [op |-> op, ok |-> result.ok, err |-> result.err]

\* material.set_uniforms_to_context(context)
SetUniformsToContext ==
    \E m \in MaterialScope :
        \E accepted \in Acceptances(Len(materials[m].shared_uniforms)) :
            LET done == Material_set_uniforms_to_context(materials[m], accepted)
            IN /\ pushed' = [owner |-> <<"material", m>>, attempts |-> done.attempts]
               /\ console' = done.warnings
               /\ ret' = ReturnedFrom("set_uniforms_to_context", done.result)
               /\ backend' = NoSession
               /\ calls' = <<>>
               /\ UNCHANGED <<materials, instances, gl_programs, compiled_with,
                              ever_compiled, render_vars, light_vars, transform_vars,
                              math_vars>>

\* instance.set_uniforms_to_context(context)
InstanceSetUniformsToContext ==
    \E i \in InstanceScope :
        \E accepted \in Acceptances(Len(instances[i].uniforms)) :
            LET done == MaterialInstance_set_uniforms_to_context(instances[i], accepted)
            IN /\ pushed' = [owner |-> <<"instance", i>>, attempts |-> done.attempts]
               /\ console' = done.warnings
               /\ ret' = ReturnedFrom("set_uniforms_to_context", done.result)
               /\ backend' = NoSession
               /\ calls' = <<>>
               /\ UNCHANGED <<materials, instances, gl_programs, compiled_with,
                              ever_compiled, render_vars, light_vars, transform_vars,
                              math_vars>>

----------------------------------------------------------------------------
(* Operations on the Renderer *)

\* The number of entries of a mesh repository.
Entries(repository) ==
    LET RECURSIVE Count(_)
        Count(keys) ==
            IF keys = {} THEN 0
            ELSE LET k == CHOOSE k \in keys : TRUE
                 IN Len(repository[k]) + Count(keys \ {k})
    IN Count(DOMAIN repository)

Registered == Entries(renderer.mesh_repository)

\* renderer.register_mesh(mesh)
RegisterMesh(mesh) ==
    /\ Registered < MaxRegistered
    /\ LET m == InstanceParent[mesh]
           looked == Mesh_lookup_locations(instances[mesh], materials[m])
           id == MaterialInstance_get_parent_id(material_key[m], renderer.next_material_id)
       IN /\ instances' = [instances EXCEPT ![mesh] = looked.self]
          /\ materials' = [materials EXCEPT ![m] = looked.parent]
          /\ calls' = looked.calls
          /\ material_key' = [material_key EXCEPT ![m] = <<id>>]
          /\ renderer' = Renderer_register_mesh(renderer, mesh, id)
    /\ frame' = <<>>
    /\ ret' = NoReturn
    /\ backend' = NoSession
    /\ UNCHANGED <<gl_programs, compiled_with, ever_compiled, sorted, world_vars>>

Register == \E mesh \in MeshIds : RegisterMesh(mesh)

\* material.set_transparent(transparent)
SetTransparent ==
    \E m \in MaterialIds, transparent \in BOOLEAN :
        /\ materials' = [materials EXCEPT ![m] = Material_set_transparent(@, transparent)]
        /\ frame' = <<>>
        /\ calls' = <<>>
        /\ ret' = NoReturn
        /\ backend' = NoSession
        /\ UNCHANGED <<instances, gl_programs, compiled_with, ever_compiled,
                       renderer, material_key, sorted, world_vars>>

\* renderer.render_objects()
RenderObjects ==
    \E order \in KeyOrders(renderer.mesh_repository) :
        /\ frame' = Renderer_render_objects(renderer, order, materials, material_key)
        /\ calls' = <<>>
        /\ ret' = NoReturn
        /\ backend' = NoSession
        /\ UNCHANGED <<materials, instances, gl_programs, compiled_with, ever_compiled,
                       renderer, material_key, sorted, world_vars>>

\* renderer.sort_objects()
SortObjects ==
    \E order \in KeyOrders(renderer.mesh_repository) :
        /\ sorted' =
              [done |-> TRUE,
               meshes |-> Renderer_sort_objects(renderer, order,
                              [mesh \in MeshIds |->
                                  MaterialInstance_is_transparent(
                                      mesh, materials[InstanceParent[mesh]])])]
        /\ UNCHANGED <<material_vars, renderer, material_key, frame, world_vars>>

----------------------------------------------------------------------------
(* Operations on the scene's lights *)

\* One frame: the components of entity e have become `components`, and the
\* dispatcher runs the LightingSystem.
RunWith(e, components) ==
    /\ scene' = [scene EXCEPT ![e] = components]
    /\ light_repository' = LightingSystem_run(scene', light_repository)
    /\ replaced' = Census(light_repository)
    /\ UNCHANGED <<material_vars, render_vars, transform_vars, push_vars, math_vars>>

\* choices[e]: the components entity e may have come to carry.
Run(choices) ==
    \E e \in EntityIds : \E components \in choices[e] : RunWith(e, components)

----------------------------------------------------------------------------
(* Operations on the transform arena *)

\* The values a translation, rotation or scale is given.
Vectors == {Vector3_new(0, 0, 0), Vector3_new(1, 0, 0)}

Alive(node) == ~transforms[node].dead
NoDeadAncestor(node) ==
    \A k \in 1..Len(Ancestors(transforms, node)) : Alive(Ancestors(transforms, node)[k])

\* create(t, r, s): no translation, no rotation, unit scale
Create(limit) ==
    /\ Len(transforms) < limit
    /\ transforms' = Arena_create(transforms, Vector3_new(0, 0, 0), Vector3_new(0, 0, 0),
                                   Vector3_new(1, 1, 1))
    /\ UNCHANGED <<material_vars, render_vars, light_vars, push_vars, math_vars, edits>>

\* attach(child, parent), the child detached and the parent not below it
Attach ==
    \E child \in DOMAIN transforms, parent \in DOMAIN transforms :
        /\ child # parent
        /\ Alive(child) /\ Alive(parent)
        /\ transforms[child].parent = None
        /\ parent \notin Descendants(transforms, child)
        /\ transforms' = Arena_attach(transforms, child, parent)
        /\ UNCHANGED <<material_vars, render_vars, light_vars, push_vars, math_vars, edits>>

\* detach(node)
Detach ==
    \E node \in DOMAIN transforms :
        /\ Alive(node)
        /\ transforms' = Arena_detach(transforms, node)
        /\ UNCHANGED <<material_vars, render_vars, light_vars, push_vars, math_vars, edits>>

\* *transforms[node].get_position_mut() = v (or rotation, or scale)
EditLocal ==
    \E node \in DOMAIN transforms, v \in Vectors :
        /\ edits < MaxEdits
        /\ Alive(node)
        /\ \/ transforms' = [transforms EXCEPT ![node] = Transform_get_position_mut(@, v)]
           \/ transforms' = [transforms EXCEPT ![node] = Transform_get_rotation_mut(@, v)]
           \/ transforms' = [transforms EXCEPT ![node] = Transform_get_scale_mut(@, v)]
        /\ transforms' # transforms
        /\ edits' = edits + 1
        /\ UNCHANGED <<material_vars, render_vars, light_vars, push_vars, math_vars>>

\* get_world_matrix(node), no dead node above it
GetWorldMatrix ==
    \E node \in DOMAIN transforms :
        /\ Alive(node) /\ NoDeadAncestor(node)
        /\ transforms' = Arena_get_world_matrix(transforms, node).arena
        /\ UNCHANGED <<material_vars, render_vars, light_vars, push_vars, math_vars, edits>>

----------------------------------------------------------------------------
(* Operations on Quaternions *)

\* let value = &q * &r;
Mul ==
    \E r \in Operands :
        /\ product' = [op |-> "mul", lhs |-> quaternion, rhs |-> r,
                       value |-> Quaternion_mul(quaternion, r)]
        /\ UNCHANGED <<material_vars, render_vars, light_vars, transform_vars,
                       push_vars, quaternion>>

\* q *= r;
MulAssign ==
    \E r \in Operands :
        LET assigned == Quaternion_mul_assign(quaternion, r)
        IN /\ Followed(assigned)
           /\ quaternion' = assigned
           /\ product' = [op |-> "mul_assign", lhs |-> quaternion, rhs |-> r,
                          value |-> assigned]
           /\ UNCHANGED <<material_vars, render_vars, light_vars, transform_vars,
                          push_vars>>

----------------------------------------------------------------------------
(* Specifications *)

\* Inputs narrowed to what a specification's claims distinguish.
OneValueUniforms == {u \in NewUniforms : u.value = 1}
OneConfiguration == {DefaultLightConfiguration}
\* The device accepts everything, or rejects the vertex stage with a log.
TwoSessions ==
    {io \in BackendSessions :
        io.link = StageOk \/ io.vertex.log = "ERROR: 0:1: syntax error"}

\* The life cycle of a Material: compile, should_compile, lookup_locations.
Next ==
    \/ Compile(LightConfigurations, BackendSessions)
    \/ LookupLocations(OneConfiguration)
    \/ SetUniform(OneValueUniforms)

Spec == Init /\ [][Next]_vars

\* Location lookup of a Material and its MaterialInstances across recompiles.
NextLookup ==
    \/ Compile(OneConfiguration, TwoSessions)
    \/ LookupLocations(OneConfiguration)
    \/ SetUniform(OneValueUniforms)
    \/ InstanceLookupLocations(OneConfiguration)
    \/ InstanceSetUniform(OneValueUniforms)

SpecLookup == InitPlain /\ [][NextLookup]_vars

\* The attribute-location cache of a Material across recompiles.
NextAttributes ==
    \/ Compile(OneConfiguration, TwoSessions)
    \/ LookupLocations(OneConfiguration)
    \/ RegisterNewAttributeLocation

SpecAttributes == InitPlain /\ [][NextAttributes]_vars

\* The uniform sets of a Material and its MaterialInstances.
NextUniforms ==
    \/ SetUniform(NewUniforms)
    \/ PushUniforms(Batches)
    \/ InstanceSetUniform(NewUniforms)
    \/ InstancePushUniforms(Batches)
    \/ InstanceSetParentUniform(NewUniforms)

SpecUniforms == InitPlain /\ [][NextUniforms]_vars

\* One Material shared by two MaterialInstances: the shared set, the private
\* sets and the lookup flags.
NextSharing ==
    \/ InstanceLookupLocations(OneConfiguration)
    \/ InstanceSetUniform(OneValueUniforms)
    \/ InstanceSetParentUniform(NewUniforms)

SpecSharing == InitPlain /\ [][NextSharing]_vars

\* Pushing the uniform sets of a Material and its MaterialInstances.
NextPush ==
    \/ SetUniform(OneValueUniforms)
    \/ InstanceSetUniform(OneValueUniforms)
    \/ SetUniformsToContext
    \/ InstanceSetUniformsToContext

SpecPush == InitPlain /\ [][NextPush]_vars

\* Draw order of one frame over the meshes registered so far.
NextRender ==
    \/ Register
    \/ SetTransparent
    \/ SetUniform(OneValueUniforms)
    \/ RenderObjects

SpecRender == InitPlain /\ [][NextRender]_vars

\* Frames over compiled and uncompiled Materials.
AcceptingSessions == {io \in BackendSessions : io.link = StageOk}

NextFrame ==
    \/ Compile(OneConfiguration, AcceptingSessions)
    \/ Register
    \/ RenderObjects

SpecFrame == InitPlain /\ [][NextFrame]_vars

\* sort_objects on every mesh repository within the bounds, whatever the
\* keys its buckets are stored under and whichever Materials are transparent.
BucketContents == UNION {[1..n -> MeshIds] : n \in 1..MaxBucket}
Repositories ==
    UNION {[keys -> BucketContents] : keys \in SUBSET (0..MaxKey)}

InitSort ==
    /\ \E transparent \in [MaterialIds -> BOOLEAN] :
          materials = [m \in MaterialIds |->
                          Material_set_transparent(
                              Material_new(PlainShader, PlainShader), transparent[m])]
    /\ \E repository \in Repositories :
          /\ Entries(repository) <= MaxRegistered
          /\ renderer = [Renderer_new EXCEPT !.mesh_repository = repository]
    /\ Fresh

SpecSort == InitSort /\ [][SortObjects]_vars

\* Classification of the lights: an entity carries its own Light and any
\* combination of the other components, enabled or not, or no Light at all.
LightingChoices ==
    [e \in EntityIds |->
        {components \in ComponentChoices(e, {TagLight(e)}) :
            components.light = None =>
                /\ components.enabled
                /\ components.transform = None
                /\ components.direction = None
                /\ components.cone = None}]

NextLighting == Run(LightingChoices)

SpecLighting == InitPlain /\ [][NextLighting]_vars

\* The ambient blend: an entity carries any Light and is ambient,
\* directional or not enabled, or it carries no Light.
AmbientChoices ==
    [e \in EntityIds |->
        {components \in ComponentChoices(e, Lights) :
            /\ components.transform = None
            /\ components.cone = None
            /\ (components.light = None \/ ~components.enabled)
                  => components.direction = None
            /\ components.light = None => components.enabled}]

NextAmbient == Run(AmbientChoices)

SpecAmbient == InitPlain /\ [][NextAmbient]_vars

\* The links of the transform arena under create, attach and detach.
NextGraph ==
    \/ Create(MaxTransforms)
    \/ Attach
    \/ Detach

SpecGraph == InitPlain /\ [][NextGraph]_vars

\* World matrices of the arena under edits and reads.
NextMatrix ==
    \/ Create(MaxMoved)
    \/ Attach
    \/ EditLocal
    \/ GetWorldMatrix

SpecMatrix == InitPlain /\ [][NextMatrix]_vars

\* Products of Quaternions, by `*` and by `*=`, from every operand.
InitQuaternion ==
    /\ materials = [m \in MaterialIds |-> Material_new(PlainShader, PlainShader)]
    /\ renderer = Renderer_new
    /\ FreshWorld
    /\ quaternion \in Operands

NextQuaternion ==
    \/ Mul
    \/ MulAssign

SpecQuaternion == InitQuaternion /\ [][NextQuaternion]_vars

----------------------------------------------------------------------------
(* Claims about Material::compile and Material::should_compile (Spec) *)

Lit(m) == materials[m].lit
HasProgram(m) == materials[m].program # NoProgram
CompileReturned == ret.op = "compile"
CompileSucceeded == ret.op = "compile" /\ ret.ok
CompileFailed == ret.op = "compile" /\ ~ret.ok

\* C1: for a lit Material that has a program, should_compile(c) is true
\* exactly when c differs from the configuration given to the most recent
\* successful compile; so it is false right after a successful compile(c).
C1_ShouldCompileTracksLastCompile ==
    \A m \in MaterialScope :
        (Lit(m) /\ HasProgram(m)) =>
            \A c \in LightConfigurations :
                Material_should_compile(materials[m], c) <=> (c # compiled_with[m])

\* C2: once a compile has succeeded on a non-lit Material, should_compile is
\* false for every light configuration, whatever compile, lookup_locations
\* and set_uniform calls follow.
C2_NonLitNeverRecompiles ==
    \A m \in MaterialScope :
        (~Lit(m) /\ ever_compiled[m]) =>
            \A c \in LightConfigurations : ~Material_should_compile(materials[m], c)

\* A non-lit Material, compiled once, after a later failed compile and with
\* uniforms set and locations looked up in between.
C2_Witness ==
    /\ ~Lit("A") /\ ever_compiled["A"]
    /\ CompileFailed
    /\ Len(materials["A"].shared_uniforms) > 0
    /\ materials["A"].shared_uniforms[1][2].location # NoProgram

\* The info log the device holds for the stage that failed (NoLog if none).
FailedStageLog(io) ==
    IF io.vertex # StageOk THEN io.vertex.log
    ELSE IF io.fragment # StageOk THEN io.fragment.log
    ELSE io.link.log

\* C3: a compile whose vertex stage, fragment stage or link fails returns an
\* error that carries the device's info log, and leaves the program handle
\* as it was before the call.
C3_FailedCompileKeepsProgram ==
    [][(ret'.op = "compile" /\ backend'.link # StageOk) =>
          /\ ~ret'.ok
          /\ FailedStageLog(backend') # NoLog => ret'.err = FailedStageLog(backend')
          /\ \A m \in MaterialScope : materials'[m].program = materials[m].program]_vars

\* A failed compile that returned the device's log and kept an earlier program.
C3_Witness ==
    /\ CompileFailed /\ ret.err \in InfoLogs
    /\ HasProgram("A")

FullMaterialLookup(material) ==
    <<Lookup("global", "vp_matrix", material.program)>>
    \o [i \in 1..Len(material.shared_uniforms) |->
           Lookup("material", material.shared_uniforms[i][1], material.program)]

\* C5: a successful compile leaves lookup_done cleared, and whenever
\* lookup_done then becomes set, the step looked up the global and every
\* shared uniform location against the Material's current program.
C5_CompileInvalidatesLocations ==
    /\ [](\A m \in MaterialScope : CompileSucceeded => ~materials[m].lookup_done)
    /\ [][\A m \in MaterialScope :
            (~materials[m].lookup_done /\ materials'[m].lookup_done) =>
                /\ materials'[m].program = materials[m].program
                /\ calls' = FullMaterialLookup(materials[m])]_vars

\* Locations looked up again against a second program.
C5_Witness ==
    /\ materials["A"].program > 1
    /\ materials["A"].lookup_done
    /\ Len(materials["A"].shared_uniforms) > 0
    /\ calls = FullMaterialLookup(materials["A"])

----------------------------------------------------------------------------
(* Claims about location lookup (SpecLookup) *)

\* C6: when a MaterialInstance is resolved (its uniforms have locations) and
\* its parent Material was then successfully recompiled (it holds its second
\* or a later program), the next lookup_locations call on the instance looks
\* every uniform of the instance up against the parent's new program.
C6_RecompileResetsInstance ==
    [][\A i \in InstanceScope, c \in OneConfiguration :
          (/\ CompileSucceeded /\ gl_programs > 1
           /\ instances[i].lookup_done
           /\ \A k \in 1..Len(instances[i].uniforms) :
                 instances[i].uniforms[k][2].location # NoProgram
           /\ InstanceLookupLocationsOf(i, c)) =>
              \A k \in 1..Len(instances[i].uniforms) :
                  \E j \in 1..Len(calls') :
                      calls'[j] = Lookup("instance", instances[i].uniforms[k][1],
                                         materials[InstanceParent[i]].program)]_vars

\* The lookups of one call are the parent's (global, then shared uniforms)
\* followed by one per uniform of the instance, in the instance's order.
ParentThenInstance(log, parent, inst) ==
    LET k == 1 + Len(parent.shared_uniforms)
    IN /\ Len(log) = k + Len(inst.uniforms)
       /\ \A j \in 1..Len(log) :
            /\ j <= k => log[j].owner \in {"global", "material"}
            /\ j > k => log[j] = Lookup("instance", inst.uniforms[j - k][1], parent.program)

\* C7: lookup_locations on an unresolved MaterialInstance leaves the instance
\* and its parent resolved, and when the parent was unresolved too its
\* locations are looked up before the instance's; on a resolved instance the
\* call issues no lookup and changes neither Material nor MaterialInstance.
C7_InstanceLookupParentFirstThenIdempotent ==
    [][\A i \in InstanceScope, c \in OneConfiguration :
          InstanceLookupLocationsOf(i, c) =>
              IF instances[i].lookup_done
              THEN calls' = <<>> /\ materials' = materials /\ instances' = instances
              ELSE /\ instances'[i].lookup_done
                   /\ materials'[InstanceParent[i]].lookup_done
                   /\ ~materials[InstanceParent[i]].lookup_done =>
                        ParentThenInstance(calls', materials[InstanceParent[i]],
                                           instances[i])]_vars

\* Right after the first call: parent and instance resolved by one call that
\* looked up the global location, a shared uniform and an instance uniform.
C7_Witness ==
    /\ instances[1].lookup_done /\ materials["A"].lookup_done
    /\ Len(calls) >= 3
    /\ calls[1].owner = "global"
    /\ calls[2].owner = "material"
    /\ calls[Len(calls)].owner = "instance"
    /\ HasProgram("A")

----------------------------------------------------------------------------
(* Claims about the uniform sets (SpecUniforms) *)

NoNameTwice(uniforms) ==
    \A i \in 1..Len(uniforms), j \in 1..Len(uniforms) :
        uniforms[i][1] = uniforms[j][1] => i = j

\* `after` is `before` with `uniform` replaced in place, or appended.
IsUpsert(before, after, uniform) ==
    IF \E i \in 1..Len(before) : before[i][1] = uniform.name
    THEN /\ Len(after) = Len(before)
         /\ \A j \in 1..Len(before) :
              /\ after[j][1] = before[j][1]
              /\ before[j][1] = uniform.name => after[j][2] = uniform
              /\ before[j][1] # uniform.name => after[j] = before[j]
    ELSE /\ Len(after) = Len(before) + 1
         /\ \A j \in 1..Len(before) : after[j] = before[j]
         /\ after[Len(after)] = <<uniform.name, uniform>>

\* C8: set_uniform on a Material's shared set and on a MaterialInstance's
\* private set replaces the value of a name already present, keeping length
\* and order, and appends a new name at the end; so no name occurs twice in
\* a set after any set_uniform and push_uniforms calls.
C8_SetUniformIsUpsert ==
    /\ [](/\ \A m \in MaterialScope : NoNameTwice(materials[m].shared_uniforms)
          /\ \A i \in InstanceScope : NoNameTwice(instances[i].uniforms))
    /\ [][/\ \A m \in MaterialScope, u \in NewUniforms :
               SetUniformOf(m, u) =>
                   IsUpsert(materials[m].shared_uniforms,
                            materials'[m].shared_uniforms, u)
          /\ \A i \in InstanceScope, u \in NewUniforms :
               InstanceSetUniformOf(i, u) =>
                   IsUpsert(instances[i].uniforms, instances'[i].uniforms, u)]_vars

\* Both sets hold two names, with a value that a later set_uniform replaced.
C8_Witness ==
    /\ Len(materials["A"].shared_uniforms) = 2
    /\ materials["A"].shared_uniforms[1][2].value = 2
    /\ materials["A"].shared_uniforms[2][2].value = 2
    /\ Len(instances[1].uniforms) = 2
    /\ instances[1].uniforms[1][1] = "b"
    /\ instances[1].uniforms[1][2].value = 2

----------------------------------------------------------------------------
(* Claims about the draw order (SpecSort, SpecRender) *)

\* How often `mesh` occurs in a sequence of meshes.
Occurrences(meshes, mesh) == Cardinality({i \in 1..Len(meshes) : meshes[i] = mesh})

RepositoryOccurrences(mesh) ==
    LET repository == renderer.mesh_repository
        RECURSIVE Sum(_)
        Sum(keys) ==
            IF keys = {} THEN 0
            ELSE LET k == CHOOSE k \in keys : TRUE
                 IN Occurrences(repository[k], mesh) + Sum(keys \ {k})
    IN Sum(DOMAIN repository)

Transparent(mesh) == ~materials[InstanceParent[mesh]].opaque

\* C9: sort_objects returns every entry of every bucket exactly once
\* (a mesh registered twice comes twice), and no transparent mesh before an
\* opaque one.
C9_SortIsPartitionedPermutation ==
    sorted.done =>
        /\ \A mesh \in MeshIds :
              Occurrences(sorted.meshes, mesh) = RepositoryOccurrences(mesh)
        /\ \A i, j \in 1..Len(sorted.meshes) :
              (Transparent(sorted.meshes[i]) /\ ~Transparent(sorted.meshes[j])) => j < i

\* Two buckets, a mesh held twice, an opaque mesh stored after a transparent one.
C9_Witness ==
    /\ sorted.done
    /\ Cardinality(DOMAIN renderer.mesh_repository) = 2
    /\ \E mesh \in MeshIds : RepositoryOccurrences(mesh) = 2
    /\ \E k \in DOMAIN renderer.mesh_repository :
          /\ Len(renderer.mesh_repository[k]) = 2
          /\ Transparent(renderer.mesh_repository[k][1])
          /\ ~Transparent(renderer.mesh_repository[k][2])

\* A frame was rendered and nothing was registered or changed since.
Rendered == frame # <<>>

RegisteredMaterials ==
    {InstanceParent[mesh] : mesh \in {x \in MeshIds : RepositoryOccurrences(x) > 0}}

Activations == {i \in 1..Len(frame) : frame[i].call = "use_program"}
Draws == {i \in 1..Len(frame) : frame[i].call = "draw_arrays"}

\* The Material whose program is active when the frame's i-th call is issued.
ActiveMaterialAt(i) ==
    LET before == {j \in Activations : j < i}
    IN IF before = {} THEN ""
       ELSE frame[CHOOSE j \in before : \A k \in before : k <= j].material

KeyOf(mesh) == material_key[InstanceParent[mesh]]

\* The frame's j-th call is a draw at a material-key boundary of the draw
\* order: the first draw, or one whose mesh has another key than the draw before.
KeyBoundary(calls_of_frame, j) ==
    LET earlier == {i \in 1..(j - 1) : calls_of_frame[i].call = "draw_arrays"}
    IN \/ earlier = {}
       \/ LET last == CHOOSE i \in earlier : \A k \in earlier : k <= i
          IN KeyOf(calls_of_frame[last].mesh) # KeyOf(calls_of_frame[j].mesh)

\* Right before the frame's j-th call stand the activation of the program of
\* `material`, the view-projection push and one push per shared uniform of
\* the Material, in set order, and a draw (or the frame's set-up) before them.
BatchPrologue(calls_of_frame, j, material) ==
    LET shared == materials[material].shared_uniforms
        n == Len(shared)
        s == j - 2 - n
    IN /\ s >= 1
       /\ calls_of_frame[s].call = "use_program"
       /\ calls_of_frame[s].material = material
       /\ calls_of_frame[s + 1].call = "vp_matrix"
       /\ \A k \in 1..n :
             /\ calls_of_frame[s + 1 + k].call = "set_to_context"
             /\ calls_of_frame[s + 1 + k].uniform = shared[k][1]
       /\ s > 1 => calls_of_frame[s - 1].call
                      \in {"draw_arrays", "enable DEPTH_TEST"}

\* C11: in a frame, every draw at a material-key boundary is preceded by the
\* activation of its Material's program, the view-projection push and the
\* push of every shared uniform of that Material, and a draw inside a batch
\* follows the previous draw directly: nothing is pushed anywhere else.
C11_SharedUniformsPushedPerBatch ==
    [][(frame' # <<>> /\ materials' = materials) =>
          \A j \in 1..Len(frame') :
              frame'[j].call = "draw_arrays" =>
                  IF KeyBoundary(frame', j)
                  THEN BatchPrologue(frame', j, InstanceParent[frame'[j].mesh])
                  ELSE frame'[j - 1].call = "draw_arrays"]_vars

\* The bucket stored under `key`, empty when the repository has no such key.
BucketOf(repository, key) ==
    IF key \in DOMAIN repository THEN repository[key] ELSE <<>>

KeysHolding(mesh) ==
    {k \in DOMAIN renderer.mesh_repository :
        Occurrences(renderer.mesh_repository[k], mesh) > 0}

Classified(components) ==
    LET transform == components.transform # None
        direction == components.direction # None
        cone == components.cone # None
    IN IF components.light = None \/ ~components.enabled THEN "excluded"
       ELSE IF direction /\ ~cone THEN "directional"
       ELSE IF transform /\ ~direction /\ ~cone THEN "point"
       ELSE IF transform /\ direction /\ cone THEN "spot"
       ELSE IF ~transform /\ ~direction /\ ~cone THEN "ambient"
       ELSE "excluded"

ClassifiedAs(bucket) == {e \in EntityIds : Classified(scene[e]) = bucket}

\* The entries of a list of the repository whose Light is the one of entity e.
EntriesOf(list, e) == {i \in 1..Len(list) : list[i][1] = TagLight(e)}

\* The Light of entity e went into the ambient blend: its intensity, a power
\* of two no other entity has, is part of the aggregated intensity.
InAmbient(e) ==
    /\ light_repository.ambiant # None
    /\ (light_repository.ambiant[1].intensity \div TagLight(e).intensity) % 2 = 1

\* C14: after a run every entity is in the one bucket its components
\* (transform, direction, cone) name, with the values of its own components,
\* and an entity that is not enabled, or whose components fit no shape, is in none.
C14_EveryLightInItsBucket ==
    \A e \in EntityIds :
        LET bucket == Classified(scene[e])
            directional == EntriesOf(light_repository.directional, e)
            point == EntriesOf(light_repository.point, e)
            spot == EntriesOf(light_repository.spot, e)
        IN /\ Cardinality(directional) = IF bucket = "directional" THEN 1 ELSE 0
           /\ Cardinality(point) = IF bucket = "point" THEN 1 ELSE 0
           /\ Cardinality(spot) = IF bucket = "spot" THEN 1 ELSE 0
           /\ InAmbient(e) <=> bucket = "ambient"
           /\ \A i \in directional :
                 light_repository.directional[i][2] = scene[e].direction[1]
           /\ \A i \in point :
                 light_repository.point[i][2] = scene[e].transform[1].world_matrix
           /\ \A i \in spot :
                 light_repository.spot[i]
                     = <<TagLight(e), scene[e].transform[1].world_matrix,
                         scene[e].direction[1], scene[e].cone[1]>>

\* One enabled light has a cone and a direction but no transform and is in
\* no bucket, while another, with direction and transform, is directional.
C14_Witness ==
    \E e \in EntityIds, f \in EntityIds :
        /\ scene[e].enabled /\ scene[e].light # None
        /\ scene[e].cone # None /\ scene[e].direction # None /\ scene[e].transform = None
        /\ scene[f].enabled /\ scene[f].light # None
        /\ scene[f].direction # None /\ scene[f].transform # None /\ scene[f].cone = None
        /\ light_repository.directional = <<<<TagLight(f), DirectionDown>>>>
        /\ light_repository.spot = <<>>

\* The Lights of the entities this run joined over.
JoinedLights ==
    {scene[e].light[1] : e \in {f \in EntityIds : scene[f].light # None /\ scene[f].enabled}}

\* C15: whatever the repository held before the run, afterwards each list is
\* as long as the number of entities of this run classified into it, holds
\* Lights of this run only, and the ambient light is present exactly when
\* this run has an ambient-classified light.
C15_RepositoryRebuiltEachRun ==
    /\ Len(light_repository.directional) = Cardinality(ClassifiedAs("directional"))
    /\ Len(light_repository.point) = Cardinality(ClassifiedAs("point"))
    /\ Len(light_repository.spot) = Cardinality(ClassifiedAs("spot"))
    /\ light_repository.ambiant # None <=> ClassifiedAs("ambient") # {}
    /\ \A list \in {light_repository.directional, light_repository.point,
                     light_repository.spot} :
          \A i \in 1..Len(list) : list[i][1] \in JoinedLights

\* The run started from a repository with an ambient light and a directional
\* light; the ambient light is gone and the directional list was not added to.
C15_Witness ==
    /\ replaced.ambiant
    /\ replaced.directional = 1
    /\ light_repository.ambiant = None
    /\ Len(light_repository.directional) = 1

\* The ambient-classified entities of the run, in the order they are folded.
AmbientLights ==
    LET joined == Ascending(ClassifiedAs("ambient"))
    IN [k \in 1..Len(joined) |-> scene[joined[k]].light[1]]

\* Sum of color times intensity over a list of Lights.
RECURSIVE WeightedColorSum(_)
WeightedColorSum(lights) ==
    IF lights = <<>> THEN Vector3_new(0, 0, 0)
    ELSE Vector3_add(Vector3_scale(Head(lights).color, Head(lights).intensity),
                     WeightedColorSum(Tail(lights)))

RECURSIVE IntensitySum(_)
IntensitySum(lights) ==
    IF lights = <<>> THEN 0 ELSE Head(lights).intensity + IntensitySum(Tail(lights))

\* C16 as claimed: the aggregated ambient color is the sum of color times
\* intensity over the ambient-classified lights of the run, whatever they are.
C16_AmbientColorIsWeightedSum ==
    light_repository.ambiant # None =>
        light_repository.ambiant[1].color = WeightedColorSum(AmbientLights)

\* At every light after the first, the intensities folded before it add up to 1.
RunningIntensityIsOne ==
    \A k \in 2..Len(AmbientLights) : IntensitySum(SubSeq(AmbientLights, 1, k - 1)) = 1

\* C16, amended: the aggregated ambient color is the sum of color times
\* intensity over the ambient-classified lights of the run when, at every
\* light after the first, the intensities folded so far add up to 1.
C16_AmbientColorIsWeightedSumAtUnitIntensity ==
    (light_repository.ambiant # None /\ RunningIntensityIsOne) =>
        light_repository.ambiant[1].color = WeightedColorSum(AmbientLights)

\* A red light of intensity 1 and a blue light were folded, in this order.
C16_Witness ==
    /\ Len(AmbientLights) = 2
    /\ AmbientLights[1] = Light_new(Red, 1)
    /\ AmbientLights[2].color = Blue
    /\ light_repository.ambiant # None
    /\ light_repository.ambiant[1].color
          = Vector3_add(Red, Vector3_scale(Blue, AmbientLights[2].intensity))

\* C17: the aggregated ambient intensity is the sum of the intensities of
\* the ambient-classified lights of the run, not normalised.
C17_AmbientIntensityIsSum ==
    light_repository.ambiant # None =>
        light_repository.ambiant[1].intensity = IntensitySum(AmbientLights)

\* Two ambient lights were folded and the aggregated intensity is their sum.
C17_Witness ==
    /\ Len(AmbientLights) = 2
    /\ light_repository.ambiant # None
    /\ light_repository.ambiant[1].intensity
          = AmbientLights[1].intensity + AmbientLights[2].intensity
    /\ light_repository.ambiant[1].intensity >= 2

\* The nodes met from `start` along next_sibling, at most `fuel` of them.
RECURSIVE WalkFrom(_, _)
WalkFrom(start, fuel) ==
    IF start = None \/ fuel = 0 THEN <<>>
    ELSE <<start[1]>> \o WalkFrom(transforms[start[1]].next_sibling, fuel - 1)

ChildWalk(parent) == WalkFrom(transforms[parent].first_child, Len(transforms) + 1)

AttachedTo(parent) == {n \in DOMAIN transforms : transforms[n].parent = Some(parent)}

Detached(transform) ==
    /\ transform.parent = None
    /\ transform.first_child = None
    /\ transform.last_child = None
    /\ transform.next_sibling = None
    /\ transform.previous_sibling = None

\* The walk over the children of every node visits the nodes attached to it,
\* each once, ends at last_child, and previous_sibling undoes next_sibling.
ChildListsConsistent ==
    \A parent \in DOMAIN transforms :
        LET walk == ChildWalk(parent)
        IN /\ {walk[i] : i \in 1..Len(walk)} = AttachedTo(parent)
           /\ Len(walk) = Cardinality(AttachedTo(parent))
           /\ transforms[parent].last_child
                 = IF walk = <<>> THEN None ELSE Some(walk[Len(walk)])
           /\ \A i \in 1..Len(walk) :
                 transforms[walk[i]].previous_sibling
                     = IF i = 1 THEN None ELSE Some(walk[i - 1])
           /\ transforms[parent].parent = None =>
                 /\ transforms[parent].next_sibling = None
                 /\ transforms[parent].previous_sibling = None

\* C18: after any valid attaches and detaches the walk from first_child along
\* next_sibling visits exactly the nodes attached to the parent, each once,
\* ending at last_child, with previous_sibling the inverse of next_sibling;
\* and a node just created has no parent, no children and no siblings.
C18_ChildListsAreTheAttachedNodes ==
    /\ []ChildListsConsistent
    /\ [][Len(transforms') > Len(transforms) =>
             Detached(transforms'[Len(transforms')])]_vars

\* A parent keeps two children in its list after another node was detached.
C18_Witness ==
    /\ Len(transforms) = 4
    /\ \E parent \in DOMAIN transforms :
          /\ Len(ChildWalk(parent)) = 2
          /\ ChildWalk(parent)[1] > ChildWalk(parent)[2]
    /\ \E node \in DOMAIN transforms : transforms[node].dead

\* Parent's world matrix times local matrix, the identity standing for the
\* parent of a root.
RECURSIVE WorldMatrix(_)
WorldMatrix(node) ==
    Matrix4_mul(IF transforms[node].parent = None THEN Matrix4_identity
                ELSE WorldMatrix(transforms[node].parent[1]),
                LocalMatrix(transforms[node]))

\* C19: a node that is not dirty has a cached matrix equal to its parent's
\* world matrix times its own local matrix, whatever was edited on it or
\* above it since the matrix was computed.
C19_CleanNodeHasCurrentMatrix ==
    \A node \in DOMAIN transforms :
        ~transforms[node].dirty => transforms[node].matrix = WorldMatrix(node)

\* The uniform set the last set_uniforms_to_context was called on.
PushedSet ==
    IF pushed.owner[1] = "material" THEN materials[pushed.owner[2]].shared_uniforms
    ELSE instances[pushed.owner[2]].uniforms

\* C20: set_uniforms_to_context of a Material or a MaterialInstance attempts
\* every uniform of the set once, in set order, whichever pushes fail,
\* warns once per failed push, and returns success.
C20_EveryUniformAttempted ==
    ret.op = "set_uniforms_to_context" =>
        /\ ret.ok
        /\ Len(pushed.attempts) = Len(PushedSet)
        /\ \A k \in 1..Len(PushedSet) : pushed.attempts[k].uniform = PushedSet[k][1]
        /\ Len(console) = Cardinality({k \in 1..Len(pushed.attempts) : ~pushed.attempts[k].ok})

\* The first push of a Material's two uniforms failed and the second was made.
C20_Witness ==
    /\ ret.op = "set_uniforms_to_context"
    /\ pushed.owner[1] = "material"
    /\ Len(pushed.attempts) = 2
    /\ ~pushed.attempts[1].ok
    /\ pushed.attempts[2].ok
    /\ ret.ok

----------------------------------------------------------------------------
(* Claims about Quaternion products (SpecQuaternion) *)

\* C21: the identity quaternion (0, 0, 0, 1) is neutral for the product:
\* identity * q has the four components of q, and so has q * identity.
C21_IdentityIsNeutral ==
    product.op = "mul" =>
        /\ Quaternion_equals(product.lhs, Quaternion_identity)
               => Quaternion_equals(product.value, product.rhs)
        /\ Quaternion_equals(product.rhs, Quaternion_identity)
               => Quaternion_equals(product.value, product.lhs)

\* identity * (1, 1, 1, 1) was computed.
C21_Witness ==
    /\ product.op = "mul"
    /\ product.lhs = Quaternion_identity
    /\ product.rhs = Quaternion_new(1, 1, 1, 1)
    /\ product.value = Quaternion_new(1, 1, 1, 1)

\* C27: after `q *= r` the four components of q are those of `q * r`
\* computed from q as it was before the assignment.
C27_MulAssignIsMul ==
    product.op = "mul_assign" =>
        Quaternion_equals(quaternion, Quaternion_mul_owned(product.lhs, product.rhs))

----------------------------------------------------------------------------
(* Claims about the program active during a frame (SpecFrame) *)

\* The program handed to the last use_program before the j-th call of a
\* frame, None when there was no use_program yet.
ActiveProgramAt(calls_of_frame, j) ==
    LET before == {i \in 1..(j - 1) : calls_of_frame[i].call = "use_program"}
    IN IF before = {} THEN None
       ELSE Some(calls_of_frame[CHOOSE i \in before : \A k \in before : k <= i].program)

----------------------------------------------------------------------------
(* Claims about the state a compile leaves behind (Spec) *)

\* C23: a compile that fails leaves the Material as it was before the call:
\* the locations-resolved flag, the recorded light configuration, the uniform
\* set and its cached locations are unchanged, so a Material whose locations
\* were resolved still has them resolved.
C23_FailedCompileKeepsState ==
    [][(ret'.op = "compile" /\ ~ret'.ok) =>
          \A m \in MaterialScope : materials'[m] = materials[m]]_vars

----------------------------------------------------------------------------
(* Claims about the attribute-location cache (SpecAttributes) *)

\* C24: whatever get_attribute_location returns for a name was resolved by
\* register_new_attribute_location against the Material's current program;
\* after a recompile no location resolved against an earlier program is
\* returned.
C24_AttributeLocationsAreCurrent ==
    \A m \in MaterialScope, name \in AttributeNames :
        LET found == Material_get_attribute_location(materials[m], name)
        IN found # None => found = Some(materials[m].program)

----------------------------------------------------------------------------
(* Claims about resolved uniform locations (SpecLookup) *)

\* Every uniform of the set has its location resolved against `program`.
AllResolvedAgainst(uniforms, program) ==
    \A k \in 1..Len(uniforms) : uniforms[k][2].location = program

\* C25: while the locations-resolved flag of a Material or MaterialInstance
\* is set, every uniform in its set has its location resolved against the
\* current program, also when set_uniform added or replaced a uniform after
\* lookup_locations ran.
C25_ResolvedFlagMeansAllResolved ==
    /\ \A m \in MaterialScope :
          materials[m].lookup_done =>
              AllResolvedAgainst(materials[m].shared_uniforms, materials[m].program)
    /\ \A i \in InstanceScope :
          instances[i].lookup_done =>
              AllResolvedAgainst(instances[i].uniforms,
                                 materials[instances[i].parent_material].program)

----------------------------------------------------------------------------
(* Claims about the shared and the private uniform sets (SpecSharing) *)

\* The shared set as the MaterialInstance j reaches it, through its parent.
SharedSetThrough(mats, insts, j) == mats[insts[j].parent_material].shared_uniforms

\* C26: set_parent_uniform through one MaterialInstance upserts the uniform
\* into the shared Material's set, which every instance sharing that Material
\* then sees, and leaves the private sets and lookup flags of all instances
\* unchanged; MaterialInstance::set_uniform changes the private set of that
\* instance only.
C26_ParentUniformIsSharedPrivateIsNot ==
    [][\A i \in InstanceScope, u \in NewUniforms :
          /\ InstanceSetParentUniformOf(i, u) =>
                /\ \A j \in InstanceIds :
                      InstanceParent[j] = InstanceParent[i] =>
                          IsUpsert(SharedSetThrough(materials, instances, j),
                                   SharedSetThrough(materials', instances', j), u)
                /\ \A j \in InstanceIds :
                      /\ instances'[j].uniforms = instances[j].uniforms
                      /\ instances'[j].lookup_done = instances[j].lookup_done
                /\ \A m \in MaterialIds :
                      /\ materials'[m].lookup_done = materials[m].lookup_done
                      /\ m # InstanceParent[i] => materials'[m] = materials[m]
          /\ InstanceSetUniformOf(i, u) =>
                /\ IsUpsert(instances[i].uniforms, instances'[i].uniforms, u)
                /\ instances'[i].lookup_done = instances[i].lookup_done
                /\ \A j \in InstanceIds \ {i} : instances'[j] = instances[j]
                /\ materials' = materials]_vars

\* The shared set was written twice through instances, one name replaced,
\* while instance 1 had resolved its locations and holds a private uniform
\* and instance 2 had done neither.
C26_Witness ==
    /\ Len(materials["A"].shared_uniforms) = 2
    /\ materials["A"].shared_uniforms[1][2].value = 2
    /\ instances[1].lookup_done /\ Len(instances[1].uniforms) = 1
    /\ ~instances[2].lookup_done /\ instances[2].uniforms = <<>>

====
